---- MODULE Spec2Model ----
(***************************************************************************)
(* Model of src/bot.py: the per-user read cursors kept by the updateme     *)
(* command, the replies of updateme and summarize, and the daily Fear &    *)
(* Greed scheduler.                                                        *)
(*                                                                         *)
(* The bot runs on one asyncio event loop.  A handler runs without         *)
(* interruption from one await to the next, so every action below is one   *)
(* such stretch of a handler.  summarize_with_openai has no await and      *)
(* calls the synchronous OpenAI client: while a handler is in it the       *)
(* event loop is blocked and only the clock moves.                         *)
(*                                                                         *)
(* Time: the clock counts the slots into which the instants TimesOfDay     *)
(* cut each day; state now = n stands for a real time strictly between     *)
(* instant n and instant n+1.  24 hours are Len(TimesOfDay) slots.         *)
(*                                                                         *)
(* Environment assumption: the file system accepts writes and holds        *)
(* well-formed JSON (the except branches of the load/save functions are    *)
(* not taken).                                                             *)
(***************************************************************************)
EXTENDS Integers, Sequences, FiniteSets, TLC

Users == {"u1", "u2"}
Channels == {"c1", "c2"}
Handlers == {"h1", "h2"}

\* longest channel list of one updateme command
MaxBatch == 2
\* last clock value
MaxTime == 3
\* repetitions of one tick's run after connection faults
MaxRetry == 1
\* the instants of the day the model distinguishes, in order
TimesOfDay == << [hour |-> 0, minute |-> 0], [hour |-> 18, minute |-> 30], [hour |-> 20, minute |-> 0],
                [hour |-> 23, minute |-> 59] >>
DayLen == Len(TimesOfDay)

\* A time string is the sequence of its fields between ':'; a field is << n >>
\* when int() reads it as n, and << >> when int() raises ValueError on it.
TimeStr(h, m) == << << h >>, << m >> >>

\* time strings offered to fng_time: the times of day, "24:00", "20:60",
\* "-1:00", "20" and "ab:00"
TimeInputs ==
  { TimeStr(TimesOfDay[i].hour, TimesOfDay[i].minute) : i \in 1..DayLen }
    \cup { TimeStr(24, 0), TimeStr(20, 60), TimeStr(-1, 0), << << 20 >> >>, << << >>, << 0 >> >> }

\* lengths of the text the summarizer returns
SummaryLens == {100, 2000}
\* lengths of the header put before a summary (line 294) and of a notice
\* (line 284), for a channel mention of 21 characters
HeaderLen == 46
NoticeLen == 64
\* the most messages one fetch of updateme returns (line 79)
FetchLimit == 1000
\* the safe size of one transport message
SafeSize == 1900
\* the most characters the transport takes in one message (comment of line 305)
TransportCeiling == 2000
\* length of the header of the reply of summarize (line 352), for a channel
\* mention of 21 characters and two-digit numbers
FullHeaderLen == 71
\* lengths of the summarizer's text offered where replies are built: short,
\* filling an entry to the safe size exactly, one more, and more than twice
\* the safe size
ReplyLens == {100, SafeSize - HeaderLen, SafeSize - HeaderLen + 1, 2 * SafeSize + 100}

VARIABLES now, ready, user_last_read, user_file, hs, channel_history,
          fng_scheduler_settings, sched_file, loopTime, task, cancelReq,
          taskEnd, tickCalls, tickPosts, nposts, stopDone, lastCmd

uvars == <<user_last_read, user_file, hs, channel_history>>
svars == <<fng_scheduler_settings, sched_file, loopTime, task, cancelReq,
           taskEnd, tickCalls, tickPosts, nposts, stopDone, lastCmd>>
vars == <<now, ready, user_last_read, user_file, hs, channel_history,
          fng_scheduler_settings, sched_file, loopTime, task, cancelReq,
          taskEnd, tickCalls, tickPosts, nposts, stopDone, lastCmd>>

(***************************************************************************)
(* Read cursors.  A dictionary entry that may be absent is a sequence of   *)
(* length 0 (absent) or 1; a file that may not exist likewise.             *)
(***************************************************************************)

\* datetime.isoformat(): the stored string
isoformat(t) == [iso |-> t]
\* datetime.fromisoformat(): the time a stored string denotes
fromisoformat(s) == s.iso

EmptyStore == [u \in Users |-> [c \in Channels |-> << >>]]

\* lines 273-279: the boundary after which messages count as new
ResolveBoundary(store, u, c) ==
  IF store[u][c] # << >> THEN fromisoformat(store[u][c][1]) ELSE now - DayLen

\* MarkRead replacing the user's dictionary by one that holds the new cursor
\* only
MarkReadReplaces(store, u, c) ==
  [store EXCEPT ![u] = [EmptyStore[u] EXCEPT ![c] = << isoformat(now) >>]]

\* line 297: the cursor of (u, c) set to the current time
MarkRead(store, u, c) == [store EXCEPT ![u][c] = << isoformat(now) >>]

\* lines 42-51
load_user_data == IF user_file # << >> THEN user_file[1] ELSE user_last_read

\* lines 53-59
save_user_data(store) == << store >>

\* channel lists of an updateme command (none, or up to MaxBatch references)
Batches == UNION { [1..n -> Channels] : n \in 0..MaxBatch }

IdleHandler == [pc |-> "idle", user |-> "u1", chans |-> << >>, idx |-> 1,
                issued |-> 0, sums |-> << >>, outq |-> << >>]

\* a handler that returned ("done") or ended with an uncaught exception
\* ("faulted"); its locals are gone
Ended(how) == [IdleHandler EXCEPT !.pc = how]

\* the event loop is blocked inside the synchronous summarization call
Blocked == \E h \in Handlers : hs[h].pc \in {"summarizing", "s_summarizing"}

\* no updateme handler is in flight
Quiescent == \A h \in Handlers : hs[h].pc \in {"idle", "done", "faulted"}

(***************************************************************************)
(* Reply building, lines 302-316.  A text is represented by its length.    *)
(***************************************************************************)

RECURSIVE SumLen(_)
SumLen(sums) == IF sums = << >> THEN 0 ELSE Head(sums).len + SumLen(Tail(sums))

\* line 303: "\n\n".join(all_summaries)
JoinedLen(sums) == SumLen(sums) + 2 * (Len(sums) - 1)

\* Chunks without the slicing
ChunksWhole(i, len) == << [idxs |-> {i}, len |-> len] >>

\* line 310: the slices summary[j:j+1900] of summary i
RECURSIVE Chunks(_, _)
Chunks(i, len) ==
  IF len <= 0 THEN << >>
  ELSE IF len <= SafeSize THEN << [idxs |-> {i}, len |-> len] >>
  ELSE << [idxs |-> {i}, len |-> SafeSize] >> \o Chunks(i, len - SafeSize)

RECURSIVE PerSummary(_, _)
PerSummary(sums, i) ==
  IF i > Len(sums) THEN << >>
  ELSE (IF sums[i].len > SafeSize THEN Chunks(i, sums[i].len)
        ELSE << [idxs |-> {i}, len |-> sums[i].len] >>) \o PerSummary(sums, i + 1)

\* lines 303-316: the transport messages of the reply, in sending order
Transport(sums) ==
  IF JoinedLen(sums) > SafeSize THEN PerSummary(sums, 1)
  ELSE << [idxs |-> 1..Len(sums), len |-> JoinedLen(sums)] >>

(***************************************************************************)
(* updateme, lines 254-316                                                 *)
(***************************************************************************)

\* the for loop of lines 271-300 reaching channel r.idx with the cursors
\* `store`: either the next fetch is issued (lines 273-281), or the loop is
\* over, the cursors are saved (line 300) and the first send is issued
Continue(h, r, store) ==
  /\ user_last_read' = store
  /\ IF r.idx <= Len(r.chans)
       THEN /\ hs' = [hs EXCEPT ![h] = [r EXCEPT !.pc = "fetching", !.issued = now]]
            /\ UNCHANGED user_file
       ELSE /\ user_file' = save_user_data(store)
            /\ hs' = [hs EXCEPT ![h] = [r EXCEPT !.pc = "sending", !.outq = Transport(r.sums)]]

\* one more entry of all_summaries, for the channel of this pass; marked
\* records that this pass wrote the cursor
Appended(r, kind, len, marked) ==
  [r EXCEPT !.sums = Append(r.sums, [kind |-> kind, len |-> len, marked |-> marked,
                                     chan |-> r.chans[r.idx]]),
            !.idx = r.idx + 1]

\* lines 260-266: the command arrives; without channels a usage notice is sent
UpdateMeStart(h, u, chans) ==
  /\ ready /\ ~Blocked
  /\ hs[h].pc \in {"idle", "done", "faulted"}
  /\ hs' = [hs EXCEPT ![h] =
        IF chans = << >>
          THEN [IdleHandler EXCEPT !.pc = "sending", !.user = u,
                                   !.outq = << [idxs |-> {}, len |-> NoticeLen] >>]
          ELSE [IdleHandler EXCEPT !.pc = "greeting", !.user = u, !.chans = chans]]
  /\ UNCHANGED <<channel_history, now, ready, user_last_read, user_file, svars>>

\* line 266 returns (or raises), then lines 268-281 for the first channel
GreetingReturn(h, ok) ==
  /\ ~Blocked
  /\ hs[h].pc = "greeting"
  /\ IF ok THEN Continue(h, hs[h], user_last_read)
     ELSE /\ hs' = [hs EXCEPT ![h] = Ended("faulted")]
          /\ UNCHANGED <<user_last_read, user_file>>
  /\ UNCHANGED <<channel_history, now, ready, svars>>

\* FetchForbidden without the `continue` of line 285 taking effect before the
\* cursor write of line 297
FetchForbiddenMarks(h) ==
  /\ ~Blocked
  /\ hs[h].pc = "fetching"
  /\ Continue(h, Appended(hs[h], "forbidden", NoticeLen, TRUE),
              MarkRead(user_last_read, hs[h].user, hs[h].chans[hs[h].idx]))
  /\ UNCHANGED <<channel_history, now, ready, svars>>

\* lines 283-285: the fetch returned None (discord.Forbidden, lines 91-92)
FetchForbidden(h) ==
  /\ ~Blocked
  /\ hs[h].pc = "fetching"
  /\ Continue(h, Appended(hs[h], "forbidden", NoticeLen, FALSE), user_last_read)
  /\ UNCHANGED <<channel_history, now, ready, svars>>

\* FetchEmpty with the cursor written as well (the read position advancing
\* on an empty fetch)
FetchEmptyMarks(h) ==
  /\ ~Blocked
  /\ hs[h].pc = "fetching"
  /\ Continue(h, Appended(hs[h], "empty", NoticeLen, TRUE),
              MarkRead(user_last_read, hs[h].user, hs[h].chans[hs[h].idx]))
  /\ UNCHANGED <<channel_history, now, ready, svars>>

\* lines 287-289: the fetch returned no eligible message
FetchEmpty(h) ==
  /\ ~Blocked
  /\ hs[h].pc = "fetching"
  /\ Continue(h, Appended(hs[h], "empty", NoticeLen, FALSE), user_last_read)
  /\ UNCHANGED <<channel_history, now, ready, svars>>

\* FetchMessages with the cursor write of line 297 moved before the call of
\* the summarizer
FetchMessagesMarks(h) ==
  /\ ~Blocked
  /\ hs[h].pc = "fetching"
  /\ hs' = [hs EXCEPT ![h].pc = "summarizing"]
  /\ user_last_read' = MarkRead(user_last_read, hs[h].user, hs[h].chans[hs[h].idx])
  /\ UNCHANGED <<channel_history, now, ready, user_file, svars>>

\* lines 281, 292: the fetch returned messages; the summarizer is entered
FetchMessages(h) ==
  /\ ~Blocked
  /\ hs[h].pc = "fetching"
  /\ hs' = [hs EXCEPT ![h].pc = "summarizing"]
  /\ UNCHANGED <<channel_history, now, ready, user_last_read, user_file, svars>>

\* line 281: channel.history raised something other than discord.Forbidden,
\* which fetch_messages (lines 82-92) does not catch; the handler ends there
FetchRaises(h) ==
  /\ ~Blocked
  /\ hs[h].pc = "fetching"
  /\ hs' = [hs EXCEPT ![h] = Ended("faulted")]
  /\ UNCHANGED <<channel_history, now, ready, user_last_read, user_file, svars>>

\* SummarizeReturn without the except clause of lines 150-151: the fault of the
\* OpenAI call leaves summarize_with_openai and ends the handler
SummarizeReturnAborts(h, ok, len) ==
  /\ hs[h].pc = "summarizing"
  /\ IF ok
       THEN Continue(h, Appended(hs[h], "summary", HeaderLen + len, TRUE),
                     MarkRead(user_last_read, hs[h].user, hs[h].chans[hs[h].idx]))
       ELSE /\ hs' = [hs EXCEPT ![h] = Ended("faulted")]
            /\ UNCHANGED <<user_last_read, user_file>>
  /\ UNCHANGED <<channel_history, now, ready, svars>>

\* lines 292-297: the summarizer returned its text (ok) or, lines 150-151,
\* the text of the fault it caught; the entry is appended, the cursor written
SummarizeReturn(h, ok, len) ==
  /\ hs[h].pc = "summarizing"
  /\ Continue(h, Appended(hs[h], IF ok THEN "summary" ELSE "sumerror", HeaderLen + len, TRUE),
              MarkRead(user_last_read, hs[h].user, hs[h].chans[hs[h].idx]))
  /\ UNCHANGED <<channel_history, now, ready, svars>>

\* lines 312, 314, 316 (and 263): one send returned or raised
SendReturn(h, ok) ==
  /\ ~Blocked
  /\ hs[h].pc = "sending"
  /\ hs' = [hs EXCEPT ![h] =
        IF ~ok THEN Ended("faulted")
        ELSE IF Len(hs[h].outq) = 1 THEN Ended("done")
        ELSE [hs[h] EXCEPT !.outq = Tail(hs[h].outq)]]
  /\ UNCHANGED <<channel_history, now, ready, user_last_read, user_file, svars>>

(***************************************************************************)
(* The messages of a channel.  channel_history lists, oldest first, the     *)
(* non-bot messages posted to channel c1: n messages with timestamp ts, of  *)
(* which the fetches of user u1 have returned the oldest `got`.             *)
(***************************************************************************)

Min(a, b) == IF a <= b THEN a ELSE b
Max(a, b) == IF a >= b THEN a ELSE b

\* lines 81-93: channel.history(limit, after, oldest_first) over the history
\* hist: the entries with the messages newer than `after` counted as returned,
\* oldest first, until `limit` messages are returned
RECURSIVE fetch_messages(_, _, _)
fetch_messages(hist, after, limit) ==
  IF hist = << >> THEN << >>
  ELSE LET m == Head(hist)
           k == IF m.ts > after THEN Min(m.n, limit) ELSE 0
       IN  << [m EXCEPT !.got = Max(m.got, k)] >> \o fetch_messages(Tail(hist), after, limit - k)

\* the number of messages that fetch returns
RECURSIVE Newer(_, _)
Newer(hist, after) ==
  IF hist = << >> THEN 0
  ELSE (IF Head(hist).ts > after THEN Head(hist).n ELSE 0) + Newer(Tail(hist), after)

\* n messages are posted to the channel, later than everything so far
Post(n) ==
  /\ now < MaxTime
  /\ now' = now + 1
  /\ channel_history' = Append(channel_history, [ts |-> now + 1, n |-> n, got |-> 0])
  /\ UNCHANGED <<ready, user_last_read, user_file, hs, svars>>

\* lines 273-292 with the channel's content: the fetch of handler h, issued
\* with the boundary of lines 273-279, returns the messages newer than the
\* boundary, at most FetchLimit of them; none ends the pass (lines 287-289),
\* some enter the summarizer
HistoryFetchReturn(h) ==
  /\ ~Blocked
  /\ hs[h].pc = "fetching"
  /\ LET cur == user_last_read[hs[h].user][hs[h].chans[hs[h].idx]]
         after == IF cur # << >> THEN fromisoformat(cur[1]) ELSE hs[h].issued - DayLen
     IN  IF Newer(channel_history, after) = 0
           THEN /\ Continue(h, Appended(hs[h], "empty", NoticeLen, FALSE), user_last_read)
                /\ UNCHANGED channel_history
           ELSE /\ hs' = [hs EXCEPT ![h].pc = "summarizing"]
                /\ channel_history' = fetch_messages(channel_history, after, FetchLimit)
                /\ UNCHANGED <<user_last_read, user_file>>
  /\ UNCHANGED <<now, ready, svars>>

(***************************************************************************)
(* summarize, lines 318-364.  The reply is the header followed by the       *)
(* summary: entries 1 and 2 of sums.                                        *)
(***************************************************************************)

\* lines 354-364: the transport messages of the reply of summarize
SummarizeTransport(sums) ==
  IF SumLen(sums) > SafeSize
    THEN << [idxs |-> {1}, len |-> sums[1].len] >> \o Chunks(2, sums[2].len)
    ELSE << [idxs |-> {1, 2}, len |-> SumLen(sums)] >>

\* lines 327-334: the command arrives; hours out of range gets a notice
SummarizeStart(h, u, c, hoursOk) ==
  /\ ready /\ ~Blocked
  /\ hs[h].pc \in {"idle", "done", "faulted"}
  /\ hs' = [hs EXCEPT ![h] =
        IF hoursOk
          THEN [IdleHandler EXCEPT !.pc = "s_greeting", !.user = u, !.chans = << c >>]
          ELSE [IdleHandler EXCEPT !.pc = "sending", !.user = u,
                                   !.outq = << [idxs |-> {}, len |-> NoticeLen] >>]]
  /\ UNCHANGED <<channel_history, now, ready, user_last_read, user_file, svars>>

\* line 334 returns (or raises), lines 337-339 issue the fetch
SummarizeGreetingReturn(h, ok) ==
  /\ ~Blocked
  /\ hs[h].pc = "s_greeting"
  /\ hs' = [hs EXCEPT ![h] = IF ok THEN [hs[h] EXCEPT !.pc = "s_fetching", !.issued = now]
                              ELSE Ended("faulted")]
  /\ UNCHANGED <<channel_history, now, ready, user_last_read, user_file, svars>>

\* lines 339-350: the fetch was denied or found nothing (a notice is sent),
\* raised, or returned messages (the summarizer is entered)
SummarizeFetchReturn(h, res) ==
  /\ ~Blocked
  /\ hs[h].pc = "s_fetching"
  /\ hs' = [hs EXCEPT ![h] =
        CASE res \in {"forbidden", "empty"} ->
               [hs[h] EXCEPT !.pc = "sending", !.outq = << [idxs |-> {}, len |-> NoticeLen] >>]
          [] res = "raises" -> Ended("faulted")
          [] OTHER -> [hs[h] EXCEPT !.pc = "s_summarizing"]]
  /\ UNCHANGED <<channel_history, now, ready, user_last_read, user_file, svars>>

\* lines 350-364: the summarizer returned a text of length len (its summary or
\* the text of its fault); the reply is built and its first message sent
SummarizeSummaryReturn(h, len) ==
  /\ hs[h].pc = "s_summarizing"
  /\ LET c == hs[h].chans[1]
         sums == << [kind |-> "header", len |-> FullHeaderLen, marked |-> FALSE, chan |-> c],
                    [kind |-> "full", len |-> len, marked |-> FALSE, chan |-> c] >>
     IN  hs' = [hs EXCEPT ![h] = [hs[h] EXCEPT !.pc = "sending", !.sums = sums,
                                               !.outq = SummarizeTransport(sums)]]
  /\ UNCHANGED <<channel_history, now, ready, user_last_read, user_file, svars>>

(***************************************************************************)
(* The daily scheduler, lines 225-252: fear_greed_scheduler is one         *)
(* discord.ext.tasks.Loop.  L = [task, cancelReq, loopTime] is its state:  *)
(* the asyncio task running the loop, whether a cancellation of that task  *)
(* has been requested and not yet delivered, and the time of day the loop  *)
(* waits for.  Task.cancel() only requests: the task is done when it next  *)
(* runs and the CancelledError has passed through it.                      *)
(***************************************************************************)

\* lines 39 and 225: 20:00
DefaultTime == TimesOfDay[3]

SlotOf(t) == (CHOOSE i \in 1..DayLen : TimesOfDay[i] = t) - 1

\* the first instant after the current time that falls on time of day t
NextSleepTime(t) == now + 1 + ((SlotOf(t) - (now + 1)) % DayLen)

\* the loop's task.  cfg is the configuration the last run of the callback
\* found when it began, `to` the channel the last post of the task went to
NoTask == [st |-> "none", next |-> 0, tick |-> 0, failed |-> FALSE, chan |-> "-", msg |-> "-",
           cfg |-> [enabled |-> FALSE, channel_id |-> << >>], to |-> "-"]

\* fear_greed_scheduler.is_running(), lines 163, 394, 408, 448
is_running(L) == L.task.st \notin {"none", "done"}

\* fear_greed_scheduler.start(), lines 164, 395, 453: a task that is not done
\* makes it raise RuntimeError; otherwise a new task sleeps until the loop's time
start(L) ==
  IF is_running(L) THEN [L |-> L, fault |-> "RuntimeError"]
  ELSE [L |-> [L EXCEPT !.task = [NoTask EXCEPT !.st = "sleeping", !.next = NextSleepTime(L.loopTime)]],
        fault |-> "ok"]

\* fear_greed_scheduler.cancel(), lines 409, 449
cancel(L) == IF is_running(L) THEN [L EXCEPT !.cancelReq = TRUE] ELSE L

\* fear_greed_scheduler.change_interval(time=...), line 451
change_interval(L, t) == [L EXCEPT !.loopTime = t]

TheLoop == [task |-> task, cancelReq |-> cancelReq, loopTime |-> loopTime]

SetLoop(L) ==
  /\ task' = L.task
  /\ cancelReq' = L.cancelReq
  /\ loopTime' = L.loopTime

\* the last event or scheduler command handled: its name, whether the loop
\* was running when it began, and the exception raised in it ("ok": none)
NoCmd == [cmd |-> "none", running |-> FALSE, fault |-> "ok", arg |-> << >>]

Cmd(name, fault) == [cmd |-> name, running |-> is_running(TheLoop), fault |-> fault, arg |-> << >>]

DefaultSettings == [enabled |-> FALSE, channel_id |-> << >>, time |-> DefaultTime]

\* the content of a settings file that json.load cannot read
Garbage == [garbage |-> TRUE]

\* lines 61-69: the settings of the file or, when there is no file or reading
\* it fails (lines 68-69), the settings in memory
load_scheduler_settings ==
  IF sched_file # << >> /\ sched_file[1] # Garbage THEN sched_file[1] ELSE fng_scheduler_settings

\* lines 71-77
save_scheduler_settings(s) == << s >>

\* OnReady without the test of line 162
OnReadyIgnoresEnabled ==
  /\ ~Blocked
  /\ ready' = TRUE
  /\ user_last_read' = load_user_data
  /\ fng_scheduler_settings' = load_scheduler_settings
  /\ IF ~is_running(TheLoop)
       THEN /\ SetLoop(start(TheLoop).L)
            /\ tickCalls' = 0
            /\ tickPosts' = 0
            /\ taskEnd' = "none"
       ELSE UNCHANGED <<task, cancelReq, loopTime, tickCalls, tickPosts, taskEnd>>
  /\ lastCmd' = Cmd("on_ready", "ok")
  /\ UNCHANGED <<channel_history, now, user_file, hs, sched_file, nposts, stopDone>>

\* lines 153-165
OnReady ==
  /\ ~Blocked
  /\ ready' = TRUE
  /\ user_last_read' = load_user_data
  /\ fng_scheduler_settings' = load_scheduler_settings
  /\ IF load_scheduler_settings.enabled /\ ~is_running(TheLoop)
       THEN /\ SetLoop(start(TheLoop).L)
            /\ tickCalls' = 0
            /\ tickPosts' = 0
            /\ taskEnd' = "none"
       ELSE UNCHANGED <<task, cancelReq, loopTime, tickCalls, tickPosts, taskEnd>>
  /\ lastCmd' = Cmd("on_ready", "ok")
  /\ UNCHANGED <<channel_history, now, user_file, hs, sched_file, nposts, stopDone>>

\* FngStart without the is_running() test of line 394
FngStartUnguarded(ch) ==
  /\ ready /\ ~Blocked
  /\ fng_scheduler_settings' = [fng_scheduler_settings EXCEPT !.enabled = TRUE, !.channel_id = << ch >>]
  /\ sched_file' = save_scheduler_settings(fng_scheduler_settings')
  /\ SetLoop(start(TheLoop).L)
  /\ IF start(TheLoop).fault = "ok"
       THEN tickCalls' = 0 /\ tickPosts' = 0 /\ taskEnd' = "none"
       ELSE UNCHANGED <<tickCalls, tickPosts, taskEnd>>
  /\ lastCmd' = Cmd("fng_start", start(TheLoop).fault)
  /\ stopDone' = "no"
  /\ UNCHANGED <<now, ready, uvars, nposts>>

\* lines 381-397
FngStart(ch) ==
  /\ ready /\ ~Blocked
  /\ fng_scheduler_settings' = [fng_scheduler_settings EXCEPT !.enabled = TRUE, !.channel_id = << ch >>]
  /\ sched_file' = save_scheduler_settings(fng_scheduler_settings')
  /\ IF ~is_running(TheLoop)
       THEN /\ SetLoop(start(TheLoop).L)
            /\ tickCalls' = 0
            /\ tickPosts' = 0
            /\ taskEnd' = "none"
       ELSE UNCHANGED <<task, cancelReq, loopTime, tickCalls, tickPosts, taskEnd>>
  /\ lastCmd' = Cmd("fng_start", "ok")
  /\ stopDone' = "no"
  /\ UNCHANGED <<now, ready, uvars, nposts>>

\* FngStop without the cancel() of line 409
FngStopNoCancel ==
  /\ ready /\ ~Blocked
  /\ fng_scheduler_settings' = [fng_scheduler_settings EXCEPT !.enabled = FALSE]
  /\ sched_file' = save_scheduler_settings(fng_scheduler_settings')
  /\ lastCmd' = Cmd("fng_stop", "ok")
  /\ stopDone' = "replying"
  /\ UNCHANGED <<now, ready, uvars, task, cancelReq, loopTime, tickCalls, tickPosts, taskEnd, nposts>>

\* lines 399-409, up to the reply of line 411 being issued
FngStop ==
  /\ ready /\ ~Blocked
  /\ fng_scheduler_settings' = [fng_scheduler_settings EXCEPT !.enabled = FALSE]
  /\ sched_file' = save_scheduler_settings(fng_scheduler_settings')
  /\ IF is_running(TheLoop) THEN SetLoop(cancel(TheLoop))
     ELSE UNCHANGED <<task, cancelReq, loopTime>>
  /\ lastCmd' = Cmd("fng_stop", "ok")
  /\ stopDone' = "replying"
  /\ UNCHANGED <<now, ready, uvars, tickCalls, tickPosts, taskEnd, nposts>>

\* line 411 returns: fng_stop is complete.  The reply needs a network round
\* trip, and the cancelled task was woken before it: by then the
\* cancellation has been delivered
FngStopReplied ==
  /\ ~Blocked
  /\ stopDone = "replying"
  /\ ~cancelReq
  /\ stopDone' = "completed"
  /\ UNCHANGED <<now, ready, uvars, fng_scheduler_settings, sched_file, loopTime, task,
                 cancelReq, taskEnd, tickCalls, tickPosts, nposts, lastCmd>>

\* lines 440-442: the unpacking of line 440 needs two fields, int() needs
\* each to read as an integer, line 441 tests the ranges; anything else raises
\* ValueError
ValidTime(str) ==
  /\ Len(str) = 2
  /\ str[1] # << >> /\ str[2] # << >>
  /\ 0 <= str[1][1] /\ str[1][1] <= 23
  /\ 0 <= str[2][1] /\ str[2][1] <= 59

\* what fng_time does to the settings and the loop when time string str is
\* valid, lines 444-453
Retime(str) ==
  LET t == [hour |-> str[1][1], minute |-> str[2][1]]
  IN  /\ fng_scheduler_settings' = [fng_scheduler_settings EXCEPT !.time = t]
      /\ sched_file' = save_scheduler_settings(fng_scheduler_settings')
      /\ IF is_running(TheLoop)
           THEN LET L2 == change_interval(cancel(TheLoop), t)
                IN  IF fng_scheduler_settings.enabled
                      THEN /\ SetLoop(start(L2).L)
                           /\ lastCmd' = [Cmd("fng_time", start(L2).fault) EXCEPT !.arg = str]
                      ELSE /\ SetLoop(L2)
                           /\ lastCmd' = [Cmd("fng_time", "ok") EXCEPT !.arg = str]
           ELSE /\ lastCmd' = [Cmd("fng_time", "ok") EXCEPT !.arg = str]
                /\ UNCHANGED <<task, cancelReq, loopTime>>

\* FngTime stopping the loop (line 449) before it validates the time string
FngTimeCancelsFirst(str) ==
  /\ ready /\ ~Blocked
  /\ IF ~ValidTime(str)
       THEN /\ lastCmd' = [Cmd("fng_time", "ValueError") EXCEPT !.arg = str]
            /\ SetLoop(cancel(TheLoop))
            /\ UNCHANGED <<fng_scheduler_settings, sched_file>>
       ELSE Retime(str)
  /\ UNCHANGED <<now, ready, uvars, tickCalls, tickPosts, taskEnd, nposts, stopDone>>

\* lines 432-457
FngTime(str) ==
  /\ ready /\ ~Blocked
  /\ IF ~ValidTime(str)
       THEN /\ lastCmd' = [Cmd("fng_time", "ValueError") EXCEPT !.arg = str]
            /\ UNCHANGED <<fng_scheduler_settings, sched_file, task, cancelReq, loopTime>>
       ELSE Retime(str)
  /\ UNCHANGED <<now, ready, uvars, tickCalls, tickPosts, taskEnd, nposts, stopDone>>

(***************************************************************************)
(* One tick: the loop wakes at its next iteration and runs the callback    *)
(* of lines 226-247.                                                       *)
(***************************************************************************)

\* the configuration as the callback finds it
ConfigNow == [enabled |-> fng_scheduler_settings.enabled,
              channel_id |-> fng_scheduler_settings.channel_id]

\* Callback without the tests of lines 228 and 232
CallbackUnchecked(t, found) ==
  [t EXCEPT !.st = "fetching", !.cfg = ConfigNow, !.msg = "-",
            !.chan = IF fng_scheduler_settings.channel_id # << >>
                       THEN fng_scheduler_settings.channel_id[1] ELSE "-"]

\* lines 228-242, the callback up to its first await: it returns at once when
\* the scheduler is disabled, has no channel or the channel is not found, and
\* otherwise waits for the sentiment fetch with the channel in hand
Callback(t, found) ==
  IF fng_scheduler_settings.enabled /\ fng_scheduler_settings.channel_id # << >> /\ found
    THEN [t EXCEPT !.st = "fetching", !.cfg = ConfigNow, !.msg = "-",
                   !.chan = fng_scheduler_settings.channel_id[1]]
    ELSE [t EXCEPT !.st = "sleeping", !.cfg = ConfigNow, !.msg = "-", !.chan = "-"]

TickDue == task.st = "sleeping" /\ task.next <= now /\ ~cancelReq

\* the loop wakes at task.next.  After a run that did not fail it moves to the
\* following iteration before calling the callback; after a failed run it
\* calls the callback again for the same iteration
TickFire(found) ==
  /\ ~Blocked
  /\ TickDue
  /\ IF task.failed
       THEN /\ task' = Callback([task EXCEPT !.failed = FALSE], found)
            /\ tickCalls' = tickCalls + 1
            /\ UNCHANGED tickPosts
       ELSE /\ task' = Callback([task EXCEPT !.tick = task.next, !.next = NextSleepTime(loopTime)], found)
            /\ tickCalls' = 1
            /\ tickPosts' = 0
  /\ UNCHANGED <<now, ready, uvars, fng_scheduler_settings, sched_file, loopTime, cancelReq,
                 taskEnd, nposts, stopDone, lastCmd>>

\* lines 242-247: fetch_fear_greed_index (lines 167-179) returned the record
\* (ok) or None; the report or the failure notice is handed to channel.send
TickFetchReturn(ok) ==
  /\ ~Blocked
  /\ task.st = "fetching" /\ ~cancelReq
  /\ task' = [task EXCEPT !.st = "sending", !.msg = IF ok THEN "report" ELSE "notice"]
  /\ UNCHANGED <<now, ready, uvars, fng_scheduler_settings, sched_file, loopTime, cancelReq,
                 taskEnd, tickCalls, tickPosts, nposts, stopDone, lastCmd>>

\* lines 245, 247: channel.send returned, and the loop sleeps until its next
\* iteration
TickSendOk ==
  /\ ~Blocked
  /\ task.st = "sending" /\ ~cancelReq
  /\ nposts' = nposts + 1
  /\ tickPosts' = tickPosts + 1
  /\ task' = [task EXCEPT !.st = "sleeping", !.to = task.chan]
  /\ UNCHANGED <<now, ready, uvars, fng_scheduler_settings, sched_file, loopTime, cancelReq,
                 taskEnd, tickCalls, stopDone, lastCmd>>

\* lines 245, 247: channel.send raised an exception the loop takes for a
\* connection fault (OSError, aiohttp.ClientError, asyncio.TimeoutError): the
\* run counts as failed and is repeated
TickSendTransient ==
  /\ ~Blocked
  /\ task.st = "sending" /\ ~cancelReq
  /\ tickCalls <= MaxRetry
  /\ task' = [task EXCEPT !.st = "sleeping", !.failed = TRUE]
  /\ UNCHANGED <<now, ready, uvars, fng_scheduler_settings, sched_file, loopTime, cancelReq,
                 taskEnd, tickCalls, tickPosts, nposts, stopDone, lastCmd>>

\* lines 245, 247: channel.send raised any other exception (discord.Forbidden,
\* discord.HTTPException): nothing in the callback catches it, it leaves the
\* loop and the task ends
TickSendRaises ==
  /\ ~Blocked
  /\ task.st = "sending" /\ ~cancelReq
  /\ task' = [task EXCEPT !.st = "done"]
  /\ taskEnd' = "failed"
  /\ UNCHANGED <<now, ready, uvars, fng_scheduler_settings, sched_file, loopTime, cancelReq,
                 tickCalls, tickPosts, nposts, stopDone, lastCmd>>

\* the cancelled task runs: CancelledError is raised at its await (the
\* `except Exception` of line 177 does not catch it) and the task is done.  A
\* send that was in flight may already have reached the channel
DeliverCancel(delivered) ==
  /\ ~Blocked
  /\ cancelReq
  /\ cancelReq' = FALSE
  /\ task' = [task EXCEPT !.st = "done",
                           !.to = IF task.st = "sending" /\ delivered THEN task.chan ELSE task.to]
  /\ taskEnd' = "cancelled"
  /\ IF task.st = "sending" /\ delivered
       THEN nposts' = nposts + 1 /\ tickPosts' = tickPosts + 1
       ELSE UNCHANGED <<nposts, tickPosts>>
  /\ UNCHANGED <<now, ready, uvars, fng_scheduler_settings, sched_file, loopTime,
                 tickCalls, stopDone, lastCmd>>

(***************************************************************************)
(* Environment                                                             *)
(***************************************************************************)

\* the clock moves on.  A due tick and a requested cancellation are run by
\* the event loop at once, unless the loop is blocked
Advance ==
  /\ now < MaxTime
  /\ Blocked \/ (~TickDue /\ ~cancelReq)
  /\ now' = now + 1
  /\ UNCHANGED <<ready, uvars, svars>>

\* the process is restarted: lines 28-40 run again, the files stay
Restart ==
  /\ ready
  /\ ready' = FALSE
  /\ user_last_read' = EmptyStore
  /\ hs' = [h \in Handlers |-> IdleHandler]
  /\ fng_scheduler_settings' = DefaultSettings
  /\ loopTime' = DefaultTime
  /\ task' = NoTask
  /\ cancelReq' = FALSE
  /\ taskEnd' = "none"
  /\ tickCalls' = 0
  /\ tickPosts' = 0
  /\ lastCmd' = NoCmd
  /\ UNCHANGED <<channel_history, now, user_file, sched_file, nposts, stopDone>>

Init ==
  /\ now = 0
  /\ ready = FALSE
  /\ user_last_read = EmptyStore
  /\ user_file = << >>
  /\ hs = [h \in Handlers |-> IdleHandler]
  /\ channel_history = << >>
  /\ fng_scheduler_settings = DefaultSettings
  /\ sched_file = << >>
  /\ loopTime = DefaultTime
  /\ task = NoTask
  /\ cancelReq = FALSE
  /\ taskEnd = "none"
  /\ tickCalls = 0
  /\ tickPosts = 0
  /\ nposts = 0
  /\ stopDone = "no"
  /\ lastCmd = NoCmd

\* the settings files the process may find when it is first started: none, an
\* unreadable one, and one that enables the scheduler without naming a channel
SettingsFiles ==
  { << >>, << Garbage >>,
    << [enabled |-> TRUE, channel_id |-> << >>, time |-> DefaultTime] >> }

\* Init with any of these settings files in place
InitStored ==
  /\ now = 0
  /\ ready = FALSE
  /\ user_last_read = EmptyStore
  /\ user_file = << >>
  /\ hs = [h \in Handlers |-> IdleHandler]
  /\ channel_history = << >>
  /\ fng_scheduler_settings = DefaultSettings
  /\ sched_file \in SettingsFiles
  /\ loopTime = DefaultTime
  /\ task = NoTask
  /\ cancelReq = FALSE
  /\ taskEnd = "none"
  /\ tickCalls = 0
  /\ tickPosts = 0
  /\ nposts = 0
  /\ stopDone = "no"
  /\ lastCmd = NoCmd

\* the steps of updateme commands run by the handlers HS for the users US
UpdateMe(HS, US) ==
  \/ \E h \in HS, u \in US, chans \in Batches : UpdateMeStart(h, u, chans)
  \/ \E h \in HS, ok \in BOOLEAN : GreetingReturn(h, ok)
  \/ \E h \in HS : FetchForbidden(h)
  \/ \E h \in HS : FetchEmpty(h)
  \/ \E h \in HS : FetchMessages(h)
  \/ \E h \in HS : FetchRaises(h)
  \/ \E h \in HS, ok \in BOOLEAN, len \in SummaryLens : SummarizeReturn(h, ok, len)
  \/ \E h \in HS, ok \in BOOLEAN : SendReturn(h, ok)

\* updateme commands of one user, one at a time, and their environment
Next ==
  \/ OnReady
  \/ Restart
  \/ Advance
  \/ UpdateMe({"h1"}, {"u1"})

Spec == Init /\ [][Next]_vars

\* the channel lists that name at least one channel and none twice
DistinctBatches ==
  { chans \in Batches : chans # << >> /\ \A i, j \in 1..Len(chans) : chans[i] = chans[j] => i = j }

\* two updateme commands, of the same user or of two, each run once by its own
\* handler and interleaved at their awaits, in one connected session
ConcNext ==
  \/ ~ready /\ OnReady
  \/ Advance
  \/ \E h \in Handlers, u \in Users, chans \in DistinctBatches :
       hs[h].pc = "idle" /\ UpdateMeStart(h, u, chans)
  \/ \E h \in Handlers : GreetingReturn(h, TRUE)
  \/ \E h \in Handlers : FetchForbidden(h)
  \/ \E h \in Handlers : FetchEmpty(h)
  \/ \E h \in Handlers : FetchMessages(h)
  \/ \E h \in Handlers : SummarizeReturn(h, TRUE, 100)
  \/ \E h \in Handlers : SendReturn(h, TRUE)

ConcSpec == Init /\ [][ConcNext]_vars

\* the updateme commands of one user in one connected session, whatever the
\* time
BatchNext ==
  \/ ~ready /\ OnReady
  \/ UpdateMe({"h1"}, {"u1"})

BatchSpec == Init /\ [][BatchNext]_vars

\* the replies of updateme and summarize, built from texts of the lengths
\* ReplyLens, in one connected session
ReplyNext ==
  \/ ~ready /\ OnReady
  \/ \E chans \in Batches : UpdateMeStart("h1", "u1", chans)
  \/ \E ok \in BOOLEAN : GreetingReturn("h1", ok)
  \/ FetchForbidden("h1")
  \/ FetchEmpty("h1")
  \/ FetchMessages("h1")
  \/ FetchRaises("h1")
  \/ \E ok \in BOOLEAN, len \in ReplyLens : SummarizeReturn("h1", ok, len)
  \/ \E c \in Channels, hoursOk \in BOOLEAN : SummarizeStart("h1", "u1", c, hoursOk)
  \/ \E ok \in BOOLEAN : SummarizeGreetingReturn("h1", ok)
  \/ \E res \in {"forbidden", "empty", "raises", "messages"} : SummarizeFetchReturn("h1", res)
  \/ \E len \in ReplyLens \cup {0} : SummarizeSummaryReturn("h1", len)
  \/ \E ok \in BOOLEAN : SendReturn("h1", ok)

ReplySpec == Init /\ [][ReplyNext]_vars

\* user u1 runs updateme on channel c1 again and again while messages are
\* posted to the channel, one at a time or FetchLimit at once
TrackNext ==
  \/ ~ready /\ OnReady
  \/ Advance
  \/ \E n \in {1, FetchLimit} : Post(n)
  \/ UpdateMeStart("h1", "u1", << "c1" >>)
  \/ GreetingReturn("h1", TRUE)
  \/ HistoryFetchReturn("h1")
  \/ \E len \in SummaryLens : SummarizeReturn("h1", TRUE, len)
  \/ SendReturn("h1", TRUE)

TrackSpec == Init /\ [][TrackNext]_vars

\* the scheduler, its commands and its environment
SchedNext ==
  \/ OnReady
  \/ Restart
  \/ Advance
  \/ \E ch \in Channels : FngStart(ch)
  \/ FngStop
  \/ FngStopReplied
  \/ \E t \in TimeInputs : FngTime(t)
  \/ \E found \in BOOLEAN : TickFire(found)
  \/ \E ok \in BOOLEAN : TickFetchReturn(ok)
  \/ TickSendOk
  \/ TickSendTransient
  \/ TickSendRaises
  \/ \E delivered \in BOOLEAN : DeliverCancel(delivered)

SchedSpec == Init /\ [][SchedNext]_vars

\* the scheduler started over a settings file that is already there
StoredSpec == InitStored /\ [][SchedNext]_vars

(***************************************************************************)
(* Properties of updateme                                                  *)
(***************************************************************************)

\* handler h takes the step that ends its pass over a channel with an entry
\* of the given kind
PassOf(h, kind) ==
  /\ hs[h].pc \in {"fetching", "summarizing"}
  /\ Len(hs'[h].sums) = Len(hs[h].sums) + 1
  /\ hs'[h].sums[Len(hs'[h].sums)].kind = kind

\* handler h takes the step in which its pass writes the cursor
MarkingPass(h) ==
  /\ hs[h].pc \in {"fetching", "summarizing"}
  /\ Len(hs'[h].sums) = Len(hs[h].sums) + 1
  /\ hs'[h].sums[Len(hs'[h].sums)].marked

\* the cursor of the pair handler h is working on, before and after a step
CursorNow(h) == user_last_read[hs[h].user][hs[h].chans[hs[h].idx]]
CursorNext(h) == user_last_read'[hs[h].user][hs[h].chans[hs[h].idx]]

\* C1 as stated: a pass whose fetch returns no message still overwrites the
\* cursor of its pair with a timestamp of its own, one no earlier than the
\* time its fetch was issued (and so than the start of the invocation)
C1_EmptyPassOverwrites ==
  [][\A h \in Handlers : PassOf(h, "empty") =>
        CursorNext(h) # << >> /\ fromisoformat(CursorNext(h)[1]) >= hs[h].issued]_vars

\* C1 amended: a pass whose fetch returns no message leaves the cursor of its
\* pair, and every other cursor in memory, as it was
C1_EmptyPassKeepsCursor ==
  [][\A h \in Handlers : PassOf(h, "empty") => user_last_read' = user_last_read]_vars

\* an empty pass has ended for a pair that still has no cursor
C1_Witness ==
  \E h \in Handlers : \E i \in 1..Len(hs[h].sums) :
    hs[h].sums[i].kind = "empty" /\ user_last_read[hs[h].user][hs[h].chans[i]] = << >>

\* C2: a pass whose fetch is denied (fetch_messages returns None) writes no
\* cursor: the cursor of its pair, and every other cursor in memory, is after
\* the pass what it was before, absent if it was absent
C2_ForbiddenKeepsCursor ==
  [][\A h \in Handlers : PassOf(h, "forbidden") => user_last_read' = user_last_read]_vars

\* a denied pass has ended for a pair that has a cursor, and one for a pair
\* that has none
C2_Witness ==
  /\ \E h \in Handlers : \E i \in 1..Len(hs[h].sums) :
       hs[h].sums[i].kind = "forbidden" /\ user_last_read[hs[h].user][hs[h].chans[i]] # << >>
  /\ \E h \in Handlers : \E i \in 1..Len(hs[h].sums) :
       hs[h].sums[i].kind = "forbidden" /\ user_last_read[hs[h].user][hs[h].chans[i]] = << >>

\* C5 as stated: the timestamp a pass writes as cursor is the time at which
\* its fetch was issued
C5_WrittenIsFetchTime ==
  [][\A h \in Handlers : MarkingPass(h) => CursorNext(h) = << isoformat(hs[h].issued) >>]_vars

\* C6 as stated: a pass whose summarization failed leaves the cursor of its
\* pair unchanged
C6_FailedSummaryKeepsCursor ==
  [][\A h \in Handlers : PassOf(h, "sumerror") => CursorNext(h) = CursorNow(h)]_vars

\* summary i of handler h has been sent to the user in full
Sent(h, i) ==
  /\ hs[h].pc = "sending"
  /\ \A k \in 1..Len(hs[h].outq) : i \notin hs[h].outq[k].idxs

\* C7 as stated: when a pass has written the cursor of its pair, the summary
\* of that pass has already been sent to the user
C7_SentBeforeMarked ==
  \A h \in Handlers : \A i \in 1..Len(hs[h].sums) : hs[h].sums[i].marked => Sent(h, i)

\* the cursors the read-cursor file holds
Stored == IF user_file = << >> THEN EmptyStore ELSE user_file[1]

\* C8 as stated: whenever no updateme handler is in flight, the persisted
\* cursors equal the cursors in memory
C8_FlushedWhenQuiescent == (ready /\ Quiescent) => Stored = user_last_read

(***************************************************************************)
(* Properties of the scheduler                                             *)
(***************************************************************************)

\* C3 as stated: an fng_time with a valid new time, issued while the scheduler
\* is running and enabled, leaves a running scheduler whose next tick is at the
\* new time (so none at the old one), with the new time persisted
C3_RetimeKeepsRunning ==
  [][(/\ lastCmd'.cmd = "fng_time"
      /\ fng_scheduler_settings'.time # fng_scheduler_settings.time
      /\ is_running(TheLoop) /\ ~cancelReq /\ fng_scheduler_settings.enabled)
     => (/\ task'.st = "sleeping" /\ ~cancelReq'
         /\ task'.next = NextSleepTime(fng_scheduler_settings'.time)
         /\ sched_file' = << fng_scheduler_settings' >>
         /\ sched_file'[1].time = loopTime')]_vars

\* C4 as stated: the callback runs once for each tick, and no failure in a
\* tick ends the scheduler's task
C4_TickOnceAndSurvives == tickCalls <= 1 /\ taskEnd # "failed"

\* C9: once fng_stop is complete, no report is posted until fng_start is
\* issued again
C9_NoPostAfterStop == [][stopDone = "completed" => nposts' = nposts]_vars

\* fng_stop ran while the first tick of the task was suspended in its
\* sentiment fetch, and is complete
C9_Witness ==
  /\ stopDone = "completed"
  /\ lastCmd.cmd = "fng_stop" /\ lastCmd.running
  /\ taskEnd = "cancelled" /\ tickCalls = 1
  /\ task.chan # "-" /\ task.msg = "-"

\* C10: a start request (fng_start, on_ready) made while the scheduler is
\* running changes nothing of the loop and raises nothing, and no tick posts
\* more than one report
C10_StartIdempotent ==
  /\ [](tickPosts <= 1)
  /\ [](lastCmd.cmd \in {"fng_start", "on_ready"} => lastCmd.fault = "ok")
  /\ [][(/\ lastCmd' # lastCmd
         /\ lastCmd'.cmd \in {"fng_start", "on_ready"}
         /\ is_running(TheLoop))
        => (task' = task /\ cancelReq' = cancelReq /\ loopTime' = loopTime)]_vars

\* fng_start was issued while the scheduler was running, after a tick of the
\* running task had posted its report
C10_Witness ==
  /\ lastCmd.cmd = "fng_start" /\ lastCmd.running
  /\ is_running(TheLoop) /\ tickPosts = 1

\* the tick that is running or ran last was fired
Fired == tickCalls >= 1

\* C11 as stated: a tick fired with the scheduler enabled and a channel
\* configured has, once it is over, posted exactly one message, and to the
\* channel fng_start set last
C11_FiredPostsOnce ==
  (Fired /\ task.st \in {"sleeping", "done"} /\ ~task.failed
         /\ task.cfg.enabled /\ task.cfg.channel_id # << >>)
  => (/\ tickPosts = 1
      /\ fng_scheduler_settings.channel_id = << task.to >>)

\* C11 amended: a tick fired with the scheduler disabled or without a channel
\* fetches nothing and posts nothing; any tick posts at most one message, the
\* report or the failure notice, and to the channel that was configured when
\* the tick fired
C11_TickReadsConfigAtFire ==
  /\ (Fired /\ (~task.cfg.enabled \/ task.cfg.channel_id = << >>))
       => (task.st \notin {"fetching", "sending"} /\ tickPosts = 0)
  /\ tickPosts <= 1
  /\ tickPosts = 1 => (/\ task.cfg.enabled
                       /\ task.cfg.channel_id = << task.to >>
                       /\ task.msg \in {"report", "notice"})

\* a tick has posted to the channel configured when it fired although
\* fng_start set another channel while its fetch was pending
C11_Witness ==
  /\ tickPosts = 1
  /\ fng_scheduler_settings.enabled
  /\ fng_scheduler_settings.channel_id # << task.to >>

\* a tick fired with the scheduler enabled and no channel configured
C11_NoChannelFired ==
  Fired /\ task.cfg.enabled /\ task.cfg.channel_id = << >> /\ task.st = "sleeping"

\* the time string reads as hour:minute with the hour in 0..23 and the
\* minute in 0..59
InRange(str) ==
  /\ Len(str) = 2
  /\ \A i \in 1..2 : Len(str[i]) = 1
  /\ str[1][1] \in 0..23 /\ str[2][1] \in 0..59

\* a step of fng_time
IsFngTime == lastCmd' # lastCmd /\ lastCmd'.cmd = "fng_time"

\* C12: fng_time rejects its time string (with the usage notice of line 457)
\* exactly when the string does not read as hour:minute in range; an accepted
\* time is set and persisted, and a rejection leaves the settings in memory
\* and on file, the task and the time the loop waits for unchanged
C12_TimeValidated ==
  [][IsFngTime =>
       /\ (lastCmd'.fault = "ValueError") <=> ~InRange(lastCmd'.arg)
       /\ InRange(lastCmd'.arg) =>
            /\ fng_scheduler_settings'.time = [hour |-> lastCmd'.arg[1][1], minute |-> lastCmd'.arg[2][1]]
            /\ sched_file' = << fng_scheduler_settings' >>
       /\ ~InRange(lastCmd'.arg) =>
            UNCHANGED <<fng_scheduler_settings, sched_file, task, cancelReq, loopTime>>]_vars

\* "20:60" was rejected while the scheduler was running and waiting for a
\* time other than the default, with the settings on file
C12_Witness ==
  /\ lastCmd.cmd = "fng_time" /\ lastCmd.fault = "ValueError" /\ lastCmd.running
  /\ lastCmd.arg = TimeStr(20, 60)
  /\ task.st = "sleeping" /\ ~cancelReq
  /\ sched_file # << >> /\ fng_scheduler_settings.time # DefaultTime

\* "00:00" and "23:59" are accepted
C12_BoundsAccepted ==
  /\ lastCmd.cmd = "fng_time" /\ lastCmd.fault = "ok"
  /\ lastCmd.arg \in {TimeStr(0, 0), TimeStr(23, 59)}

\* the entries 1..n of handler h are those of the first n channels of its
\* request, one each and in request order
EntriesFor(h, n) ==
  /\ Len(hs[h].sums) = n
  /\ \A i \in 1..n : hs[h].sums[i].chan = hs[h].chans[i]

\* the transport messages q carry every one of n entries, in order
Carries(q, n) ==
  /\ \A i \in 1..n : \E k \in 1..Len(q) : i \in q[k].idxs
  /\ \A k, l \in 1..Len(q) : \A i \in q[k].idxs : \A j \in q[l].idxs : k < l => i <= j

\* C13: a denied fetch or a failed summarization does not end the batch: the
\* summarization ends with an entry whether it failed or not, and after either
\* fault the loop goes on to the next channel; while the loop runs there is exactly one
\* entry for each channel passed, in request order; after the loop there is
\* one for every channel of the request, the messages to send carry all of
\* them in order, and the handler returns only when the last one is sent
C13_BatchNotAborted ==
  /\ [](\A h \in Handlers :
          /\ hs[h].pc \in {"fetching", "summarizing"} => EntriesFor(h, hs[h].idx - 1)
          /\ (hs[h].pc = "sending" /\ hs[h].chans # << >>) => EntriesFor(h, Len(hs[h].chans)))
  /\ [][\A h \in Handlers :
          /\ (hs[h].pc = "summarizing" /\ hs'[h] # hs[h] /\ ready') =>
               (PassOf(h, "summary") \/ PassOf(h, "sumerror"))
          /\ (PassOf(h, "forbidden") \/ PassOf(h, "sumerror")) =>
               /\ hs'[h].pc = (IF hs[h].idx < Len(hs[h].chans) THEN "fetching" ELSE "sending")
               /\ hs'[h].idx = hs[h].idx + 1
          /\ (hs[h].pc # "sending" /\ hs'[h].pc = "sending" /\ hs'[h].chans # << >>) =>
               Carries(hs'[h].outq, Len(hs'[h].chans))
          /\ (hs[h].pc # "done" /\ hs'[h].pc = "done") =>
               (hs[h].pc = "sending" /\ Len(hs[h].outq) = 1)]_vars

\* the reply of a batch whose first channel failed in summarization and whose
\* second was denied is being sent
C13_Witness ==
  \E h \in Handlers :
    /\ hs[h].pc = "sending" /\ Len(hs[h].sums) = 2
    /\ hs[h].sums[1].kind = "sumerror"
    /\ hs[h].sums[2].kind = "forbidden"

\* cursor a is absent, or cursor b is there and no earlier than a
NotAfter(a, b) == a = << >> \/ (b # << >> /\ fromisoformat(a[1]) <= fromisoformat(b[1]))

\* C14: with two updateme handlers interleaved at their awaits, no step erases
\* or sets back a cursor, in memory or on file: a cursor once written stays,
\* or gives way to a later one of the same pair; the file never holds a cursor
\* that memory lacks; and when both handlers have returned the file holds the
\* cursors of memory, those written by either handler
C14_NoLostUpdate ==
  /\ [](\A u \in Users, c \in Channels : NotAfter(Stored[u][c], user_last_read[u][c]))
  /\ []((\A h \in Handlers : hs[h].pc = "done") => Stored = user_last_read)
  /\ [][/\ \A h \in Handlers : MarkingPass(h) => CursorNext(h) = << isoformat(now) >>
        /\ \A u \in Users, c \in Channels :
             /\ NotAfter(user_last_read[u][c], user_last_read'[u][c])
             /\ NotAfter(Stored[u][c], IF user_file' = << >> THEN << >> ELSE user_file'[1][u][c])]_vars

\* both handlers have returned; one wrote the cursors of u1 for c1 and c2, the
\* other wrote a cursor of u2 between the two, and the file holds all three
C14_Witness ==
  /\ \A h \in Handlers : hs[h].pc = "done"
  /\ user_file # << >>
  /\ \A c \in Channels : user_file[1]["u1"][c] # << >>
  /\ user_file[1]["u2"]["c1"] # << >>
  /\ fromisoformat(user_file[1]["u1"]["c1"][1]) < fromisoformat(user_file[1]["u2"]["c1"][1])
  /\ fromisoformat(user_file[1]["u2"]["c1"][1]) < fromisoformat(user_file[1]["u1"]["c2"][1])

\* C15: a step of a handler that changes a cursor in memory is the return of
\* the summarizer in the pass over that cursor's pair, hence after the fetch
\* of the pass has returned; it changes no other cursor, and no step taken
\* while the fetch or the summarization of a pass is pending, or before the
\* fetch is issued, writes one
C15_MarkedAfterFetchAndSummary ==
  [][(hs' # hs /\ ready') =>
       \A u \in Users, c \in Channels :
         user_last_read'[u][c] # user_last_read[u][c] =>
           \E h \in Handlers :
             /\ hs[h].pc = "summarizing" /\ hs'[h].pc # "summarizing"
             /\ hs[h].user = u /\ hs[h].chans[hs[h].idx] = c
             /\ Len(hs'[h].sums) = hs[h].idx
             /\ hs[h].issued <= now]_vars

\* the second pass over a channel is waiting for its fetch, and the cursor of
\* the pair is the one the first pass wrote after its summarization
C15_Witness ==
  \E h \in Handlers :
    /\ hs[h].pc = "fetching" /\ hs[h].idx = 2
    /\ hs[h].chans[1] = hs[h].chans[2]
    /\ hs[h].sums[1].kind = "summary"
    /\ user_last_read[hs[h].user][hs[h].chans[2]] # << >>
    /\ fromisoformat(user_last_read[hs[h].user][hs[h].chans[2]][1]) < hs[h].issued

\* C16 as stated: while the process is up, the cursor of a pair in memory,
\* from which the boundary of the next fetch is resolved, is the one written
\* last for the pair: no step removes it or moves it to an earlier time
C16_CursorNeverMovesBack ==
  [][(ready /\ ready') =>
       \A u \in Users, c \in Channels :
         NotAfter(user_last_read[u][c], user_last_read'[u][c])]_vars

\* the configuration a starting process is to have: that of the settings
\* file, or the defaults when there is no file or it cannot be read
Loaded ==
  IF sched_file = << >> \/ sched_file = << Garbage >> THEN DefaultSettings ELSE sched_file[1]

\* C17: the first on_ready of a process leaves the configuration of the
\* settings file in memory, or the defaults when there is no file or it cannot
\* be read, leaves the file as it is, and leaves the loop running exactly when
\* that configuration is enabled; an on_ready that finds the loop running
\* leaves its task alone and raises nothing
C17_StartupLoadsAndStarts ==
  /\ [][(~ready /\ ready') =>
          /\ fng_scheduler_settings' = Loaded
          /\ sched_file' = sched_file
          /\ is_running([task |-> task', cancelReq |-> cancelReq', loopTime |-> loopTime'])
               <=> Loaded.enabled
          /\ ~cancelReq']_vars
  /\ [](lastCmd.cmd = "on_ready" => lastCmd.fault = "ok")
  /\ [][(lastCmd' # lastCmd /\ lastCmd'.cmd = "on_ready" /\ is_running(TheLoop))
          => (task' = task /\ cancelReq' = cancelReq)]_vars

\* a process restarted after its scheduler had posted a report has started the
\* loop again from the settings file, and a further on_ready found it running
C17_Witness ==
  /\ lastCmd.cmd = "on_ready" /\ lastCmd.running
  /\ is_running(TheLoop) /\ tickCalls = 0 /\ nposts >= 1
  /\ fng_scheduler_settings.enabled /\ sched_file = << fng_scheduler_settings >>

\* a process started over an unreadable settings file runs with the defaults
C17_UnreadableKeepsDefaults ==
  ready /\ sched_file = << Garbage >> /\ fng_scheduler_settings = DefaultSettings /\ task = NoTask

RECURSIVE TotalLen(_)
TotalLen(q) == IF q = << >> THEN 0 ELSE Head(q).len + TotalLen(Tail(q))

\* the length of the messages of q that carry entry i
RECURSIVE LenOf(_, _)
LenOf(q, i) ==
  IF q = << >> THEN 0
  ELSE (IF i \in Head(q).idxs THEN Head(q).len ELSE 0) + LenOf(Tail(q), i)

\* handler h has built a reply and issues its first send
BuildsReply(h) == hs[h].pc # "sending" /\ hs'[h].pc = "sending" /\ hs'[h].sums # << >>

\* the length of the reply text handler h has built: the entries joined by
\* "\n\n" in updateme (line 303), header and summary in summarize (line 352)
ReplyLen(r) == IF r.sums[1].kind = "header" THEN SumLen(r.sums) ELSE JoinedLen(r.sums)

\* C18 as stated: a reply text longer than the safe size goes out as messages
\* none longer than the transport ceiling that carry it in order and whose
\* concatenation is the reply text; a shorter one goes out as one message
C18_SplitConcatenates ==
  [][\A h \in Handlers : BuildsReply(h) =>
       LET r == hs'[h]
       IN  IF ReplyLen(r) > SafeSize
             THEN /\ \A k \in 1..Len(r.outq) : r.outq[k].len <= TransportCeiling
                  /\ Carries(r.outq, Len(r.sums))
                  /\ TotalLen(r.outq) = ReplyLen(r)
             ELSE r.outq = << [idxs |-> 1..Len(r.sums), len |-> ReplyLen(r)] >>]_vars

\* C18 amended: a reply text of at most the safe size goes out as one message,
\* the text; a longer one goes out as non-empty messages none longer than the
\* safe size, each a slice of one entry, that carry the entries in order and
\* each entry in full: their concatenation is the reply text in summarize, and
\* in updateme the reply text without the separators between its entries
C18_SplitCarriesEntries ==
  [][\A h \in Handlers : BuildsReply(h) =>
       LET r == hs'[h]
       IN  IF ReplyLen(r) > SafeSize
             THEN /\ \A k \in 1..Len(r.outq) :
                       /\ r.outq[k].len >= 1 /\ r.outq[k].len <= SafeSize
                       /\ Cardinality(r.outq[k].idxs) = 1
                  /\ Carries(r.outq, Len(r.sums))
                  /\ \A i \in 1..Len(r.sums) : LenOf(r.outq, i) = r.sums[i].len
                  /\ TotalLen(r.outq) =
                       IF r.sums[1].kind = "header" THEN ReplyLen(r)
                       ELSE ReplyLen(r) - 2 * (Len(r.sums) - 1)
             ELSE r.outq = << [idxs |-> 1..Len(r.sums), len |-> ReplyLen(r)] >>]_vars

\* updateme is sending a reply of two entries, the first of them in three
\* slices
C18_Witness ==
  \E h \in Handlers :
    /\ hs[h].pc = "sending" /\ Len(hs[h].sums) = 2 /\ hs[h].sums[1].kind = "summary"
    /\ Len(hs[h].outq) = 4
    /\ hs[h].outq[3].idxs = {1} /\ hs[h].outq[3].len < SafeSize

\* summarize is sending a reply in header and slices
C18_SummarizeSplit ==
  \E h \in Handlers :
    /\ hs[h].pc = "sending" /\ Len(hs[h].sums) = 2 /\ hs[h].sums[1].kind = "header"
    /\ Len(hs[h].outq) = 4

\* C19 as stated: whenever the scheduler is running, the time of day its loop
\* waits for, and at which the next tick fires, is the time of the settings
C19_FiresAtConfiguredTime ==
  (is_running(TheLoop) /\ ~cancelReq) =>
    /\ loopTime = fng_scheduler_settings.time
    /\ (task.st = "sleeping" /\ ~task.failed) =>
         task.next % DayLen = SlotOf(fng_scheduler_settings.time)

\* C20 as stated, for user u1 and channel c1: every message posted is
\* returned by the fetch of some run.  A fetch returns only messages newer
\* than the cursor and the cursor never moves back here, so a message at or
\* before the cursor that no fetch has returned will be returned by none
C20_NoMessageSkipped ==
  \A k \in 1..Len(channel_history) :
    (/\ user_last_read["u1"]["c1"] # << >>
     /\ channel_history[k].ts <= fromisoformat(user_last_read["u1"]["c1"][1]))
    => channel_history[k].got = channel_history[k].n

====
